---------------------------- MODULE Spec2Model ----------------------------
(***************************************************************************)
(* Team-health survey dashboards (razanjoshi/healthcheck).                 *)
(*                                                                         *)
(* Two Streamlit scripts are modelled:                                     *)
(*   - pages/analytics.py: one render of the analytics page, as the chain  *)
(*     get_worksheet -> get_all_values -> DataFrame parsing -> key metrics *)
(*     -> filters -> charts, under specification Spec;                     *)
(*   - team_health_check.py: the rating session (ratings, current_page),   *)
(*     under specification SessionSpec.                                    *)
(*                                                                         *)
(* All cells of the sheet are text.  Numbers are kept exactly, in tenths   *)
(* (the text "1.5" is the number 15); a mean is kept as the fraction       *)
(* sum / count, so no rounding enters the model.                           *)
(***************************************************************************)
EXTENDS Integers, Sequences, FiniteSets, TLC

VARIABLES
    store,          \* the 'Scores' worksheet: header row, then data rows (text)
    pc,             \* position of the analytics script in the current render
    ui,             \* elements the render has put on the page so far
    calls,          \* calls the render has made to the spreadsheet API
    all_data,       \* worksheet.get_all_values()
    df,             \* the parsed DataFrame, one record per data row
    metrics,        \* the four key metrics and the clock value they were read at
    date_range,     \* value of the date_input widget
    teams,          \* value of the teams multiselect
    filtered_df,    \* index labels of the rows kept by the filters
    report,         \* daily_avg, current_avg, team_avg, pie, detail table
    ratings,        \* st.session_state.ratings
    current_page    \* st.session_state.current_page

analyticsVars == <<store, pc, ui, calls, all_data, df, metrics, date_range,
                   teams, filtered_df, report>>
sessionVars == <<ratings, current_page>>
vars == <<store, pc, ui, calls, all_data, df, metrics, date_range, teams,
          filtered_df, report, ratings, current_page>>

\* Largest number of data rows in the worksheet.
MaxRows == 2

-----------------------------------------------------------------------------
(* The worksheet                                                           *)

\* Header row of the sheet.  Two of the nine score columns are present.
Header == <<"Date", "Risk Taking", "Manager Appro", "Teams">>

DateTexts == {"2024-01-01 09:00", "2024-01-01 17:30", "2024-01-02 09:00",
              "not a date"}
RiskTexts == {"4"}
ManagerTexts == {"1", "1.5", "2", ""}
TeamTexts == {"Flights", "Hotels"}

\* Data rows, cell by cell in header order.  Rows that differ in when and
\* by whom they were submitted, their manager-approach cell filled or blank:
DatedRows == {<<d, r, m, t>> : d \in DateTexts, r \in RiskTexts,
                               m \in {"1", ""}, t \in TeamTexts}

\* and rows of one minute that differ in their score and their team.
ScoredRows == {<<d, r, m, t>> : d \in {"2024-01-01 09:00"}, r \in RiskTexts,
                                m \in ManagerTexts, t \in TeamTexts}

RECURSIVE SeqsUpTo(_, _)
SeqsUpTo(S, n) ==
    IF n = 0 THEN {<<>>}
    ELSE LET shorter == SeqsUpTo(S, n - 1)
         IN  shorter \cup {Append(s, x) : s \in {q \in shorter : Len(q) = n - 1},
                                          x \in S}

\* A sheet is empty, or a header followed by at most MaxRows data rows, all
\* of the first kind or all of the second, in any order.
Sheets ==
    {<<>>} \cup {<<Header>> \o rows :
                    rows \in SeqsUpTo(DatedRows, MaxRows)
                                \cup SeqsUpTo(ScoredRows, MaxRows)}

-----------------------------------------------------------------------------
(* Text conversions                                                        *)

NaN == [nan |-> TRUE, v |-> 0]
Num(n) == [nan |-> FALSE, v |-> n]

\* pd.to_numeric(errors='coerce') on one cell: the number in tenths, or NaN.
ToNumeric(text) ==
    CASE text = "1"   -> Num(10)
      [] text = "1.5" -> Num(15)
      [] text = "2"   -> Num(20)
      [] text = "3"   -> Num(30)
      [] text = "4"   -> Num(40)
      [] text = "5"   -> Num(50)
      [] OTHER        -> NaN

NoTimestamp == [ok |-> FALSE, date |-> 0, time |-> 0]
Timestamp(d, t) == [ok |-> TRUE, date |-> d, time |-> t]

\* pd.to_datetime on one cell; a text that is no date makes it raise (ok = FALSE).
ToDatetime(text) ==
    CASE text = "2024-01-01 09:00" -> Timestamp(20240101, 900)
      [] text = "2024-01-01 17:30" -> Timestamp(20240101, 1730)
      [] text = "2024-01-02 09:00" -> Timestamp(20240102, 900)
      [] text = "2024-01-02 17:30" -> Timestamp(20240102, 1730)
      [] OTHER                     -> NoTimestamp

\* ts.strftime('%Y-%m-%d')
StrfDate(ts) ==
    CASE ts.date = 20240101 -> "2024-01-01"
      [] ts.date = 20240102 -> "2024-01-02"
      [] OTHER              -> "?"

\* ts.strftime('%Y-%m-%d %H:%M')
StrfMinute(ts) ==
    CASE ts.time = 900  -> <<StrfDate(ts), "09:00">>
      [] ts.time = 1730 -> <<StrfDate(ts), "17:30">>
      [] OTHER          -> <<StrfDate(ts), "?">>

\* Series.dt.date of one timestamp: the calendar date, time of day dropped.
DtDate(ts) == ts.date


-----------------------------------------------------------------------------
(* DataFrame construction and parsing                                      *)

Range(s) == {s[i] : i \in 1..Len(s)}

\* The score columns the script knows.
AllNumericCols == <<"Risk Taking", "Team Dependen", "Goals Understan",
                    "Work Meaning", "Work Impact", "Motivation",
                    "Product Directio", "Manager Appro", "Recommend">>

InColumns(columns, col) == col \in Range(columns)

\* numeric_cols = [col for col in numeric_cols if col in df.columns]
NumericCols(columns) ==
    SelectSeq(AllNumericCols, LAMBDA col : InColumns(columns, col))

\* Position of a column in the header.
ColumnIndex(columns, col) == CHOOSE i \in 1..Len(columns) : columns[i] = col

\* One row of pd.DataFrame(all_data[1:], columns=all_data[0]) after the
\* Date column went through pd.to_datetime and the score columns through
\* pd.to_numeric(errors='coerce').
ParseRow(columns, row) ==
    [Date  |-> ToDatetime(row[ColumnIndex(columns, "Date")]),
     Teams |-> row[ColumnIndex(columns, "Teams")],
     num   |-> [col \in Range(NumericCols(columns)) |->
                    ToNumeric(row[ColumnIndex(columns, col)])]]

ParseFrame(data) ==
    [i \in 1..(Len(data) - 1) |-> ParseRow(data[1], data[i + 1])]

\* pd.to_datetime(df['Date']) raises when some cell is no date.
DatesParse(frame) == \A i \in 1..Len(frame) : frame[i].Date.ok

\* A score column holds floats unless every cell is a whole number.
IsFloatColumn(frame, col) ==
    \E i \in 1..Len(frame) :
        frame[i].num[col].nan \/ frame[i].num[col].v % 10 # 0

-----------------------------------------------------------------------------
(* Aggregation                                                             *)

NoMean == [nan |-> TRUE, sum |-> 0, count |-> 0]

\* Series.mean(): NaN cells are skipped; the sum of the others over their
\* count; NaN when there is none.  acc carries the running sum and count.
RECURSIVE MeanFrom(_, _, _, _, _)
MeanFrom(frame, rows, col, k, acc) ==
    IF k > Len(rows)
    THEN IF acc.count = 0 THEN NoMean
         ELSE [nan |-> FALSE, sum |-> acc.sum, count |-> acc.count]
    ELSE LET cell == frame[rows[k]].num[col]
         IN  MeanFrom(frame, rows, col, k + 1,
                      IF cell.nan THEN acc
                      ELSE [sum |-> acc.sum + cell.v, count |-> acc.count + 1])

\* The sum of the parseable cells over the number of rows.
MeanOverRows(frame, rows, col) ==
    LET m == MeanFrom(frame, rows, col, 1, [sum |-> 0, count |-> 0])
    IN  IF Len(rows) = 0 THEN NoMean
        ELSE [nan |-> FALSE, sum |-> m.sum, count |-> Len(rows)]

Mean(frame, rows, col) == MeanFrom(frame, rows, col, 1, [sum |-> 0, count |-> 0])

\* filtered_df[numeric_cols].mean()
CurrentAvg(frame, rows, cols) ==
    [col \in Range(cols) |-> Mean(frame, rows, col)]

\* filtered_df.groupby(filtered_df['Date'].dt.date)[numeric_cols].mean()
DailyAvg(frame, rows, cols) ==
    [d \in {DtDate(frame[rows[k]].Date) : k \in 1..Len(rows)} |->
        CurrentAvg(frame,
                   SelectSeq(rows, LAMBDA i : DtDate(frame[i].Date) = d),
                   cols)]

\* filtered_df.groupby('Teams')[numeric_cols].mean()
TeamAvg(frame, rows, cols) ==
    [t \in {frame[rows[k]].Teams : k \in 1..Len(rows)} |->
        CurrentAvg(frame, SelectSeq(rows, LAMBDA i : frame[i].Teams = t), cols)]

\* int(idx): the whole part of a score held in tenths.
IntPart(v) == v \div 10

\* f"Score {idx}": a float prints with its decimal, a whole number without.
ScoreLabel(v, isFloat) ==
    CASE v = 10 /\ isFloat -> "Score 1.0"  [] v = 10 /\ ~isFloat -> "Score 1"
      [] v = 15            -> "Score 1.5"
      [] v = 20 /\ isFloat -> "Score 2.0"  [] v = 20 /\ ~isFloat -> "Score 2"
      [] v = 30 /\ isFloat -> "Score 3.0"  [] v = 30 /\ ~isFloat -> "Score 3"
      [] v = 40 /\ isFloat -> "Score 4.0"  [] v = 40 /\ ~isFloat -> "Score 4"
      [] v = 50 /\ isFloat -> "Score 5.0"  [] v = 50 /\ ~isFloat -> "Score 5"
      [] OTHER             -> "Score ?"

\* approach_labels.get(int(idx), f"Score {idx}")
ApproachLabel(v, isFloat) ==
    CASE IntPart(v) = 1 -> "Too directive"
      [] IntPart(v) = 3 -> "Just right"
      [] IntPart(v) = 5 -> "Too hands off"
      [] OTHER      -> ScoreLabel(v, isFloat)

\* The members of a finite set of integers, ascending.
RECURSIVE Ascending(_)
Ascending(S) ==
    IF S = {} THEN <<>>
    ELSE LET least == CHOOSE x \in S : \A y \in S : x <= y
         IN  <<least>> \o Ascending(S \ {least})

\* The distinct members of a sequence, in the order of their first occurrence.
RECURSIVE FirstSeen(_)
FirstSeen(s) ==
    IF s = <<>> THEN <<>>
    ELSE LET earlier == FirstSeen(SubSeq(s, 1, Len(s) - 1))
             last    == s[Len(s)]
         IN  IF \E k \in 1..Len(earlier) : earlier[k] = last
             THEN earlier ELSE Append(earlier, last)

\* value_counts() whose index is left in the order the values first occur.
ValueCountsByAppearance(frame, rows, col) ==
    LET present == {k \in 1..Len(rows) : ~frame[rows[k]].num[col].nan}
        kept    == SelectSeq(rows, LAMBDA i : ~frame[i].num[col].nan)
        index   == FirstSeen([k \in 1..Len(kept) |-> frame[kept[k]].num[col].v])
    IN  [j \in 1..Len(index) |->
            [idx |-> index[j],
             n   |-> Cardinality({k \in present :
                                    frame[rows[k]].num[col].v = index[j]})]]

\* filtered_df[col].value_counts().sort_index(): NaN is dropped, one entry
\* per distinct value counting its rows, ascending by value.
ValueCounts(frame, rows, col) ==
    LET present == {k \in 1..Len(rows) : ~frame[rows[k]].num[col].nan}
        index   == Ascending({frame[rows[k]].num[col].v : k \in present})
    IN  [j \in 1..Len(index) |->
            [idx |-> index[j],
             n   |-> Cardinality({k \in present :
                                    frame[rows[k]].num[col].v = index[j]})]]

\* labels=[approach_labels.get(int(idx), f"Score {idx}") for idx in ...index]
PieLabels(counts, isFloat) ==
    [j \in 1..Len(counts) |-> ApproachLabel(counts[j].idx, isFloat)]

\* The formatted 'Date' strings order as the timestamps they print: a is
\* after b.
After(a, b) == a.date > b.date \/ (a.date = b.date /\ a.time > b.time)

\* display_df.sort_values('Date', ascending=False); rows of the same minute
\* stay in frame order.
RECURSIVE SortDescending(_, _)
SortDescending(frame, rows) ==
    IF rows = <<>> THEN <<>>
    ELSE LET rest == SortDescending(frame, Tail(rows))
             key  == frame[Head(rows)].Date
             before == SelectSeq(rest, LAMBDA i : After(frame[i].Date, key))
             after  == SelectSeq(rest, LAMBDA i : ~After(frame[i].Date, key))
         IN  before \o <<Head(rows)>> \o after

\* A row of the detail table: the minute it was stamped, its scores, its team.
DisplayRow(frame, i) ==
    [Date |-> StrfMinute(frame[i].Date), num |-> frame[i].num,
     Teams |-> frame[i].Teams]

DetailTable(frame, rows) ==
    LET sorted == SortDescending(frame, rows)
    IN  [k \in 1..Len(sorted) |-> DisplayRow(frame, sorted[k])]

-----------------------------------------------------------------------------
(* Filters                                                                 *)

\* The index labels of a frame, in row order.
Index(frame) == [i \in 1..Len(frame) |-> i]

\* The timestamps themselves compared with the end date at midnight.
DateFilterAtMidnight(frame, range) ==
    SelectSeq([i \in 1..Len(frame) |-> i],
              LAMBDA i : /\ DtDate(frame[i].Date) >= range[1]
                         /\ \/ DtDate(frame[i].Date) < range[2]
                            \/ /\ DtDate(frame[i].Date) = range[2]
                               /\ frame[i].Date.time = 0)

\* df[(df['Date'].dt.date >= date_range[0]) & (df['Date'].dt.date <= date_range[1])]
DateFilter(frame, range) ==
    SelectSeq(Index(frame),
              LAMBDA i : /\ DtDate(frame[i].Date) >= range[1]
                         /\ DtDate(frame[i].Date) <= range[2])

\* if teams and 'Teams' in df.columns:
\*     filtered_df = filtered_df[filtered_df['Teams'].isin(teams)]
TeamFilter(frame, rows, columns, selected) ==
    IF selected # {} /\ InColumns(columns, "Teams")
    THEN SelectSeq(rows, LAMBDA i : frame[i].Teams \in selected)
    ELSE rows

MinDate(frame) ==
    CHOOSE d \in {DtDate(frame[i].Date) : i \in 1..Len(frame)} :
        \A i \in 1..Len(frame) : d <= DtDate(frame[i].Date)
MaxDate(frame) ==
    CHOOSE d \in {DtDate(frame[i].Date) : i \in 1..Len(frame)} :
        \A i \in 1..Len(frame) : d >= DtDate(frame[i].Date)

\* The calendar dates the user can pick.
Dates == {20240101, 20240102}

\* Values st.date_input can hand back for a range: both ends picked, start
\* not after end, or only the start picked so far.  The default,
\* (df['Date'].min().date(), df['Date'].max().date()), is among them.
DateInputs(frame) ==
    {range \in Dates \X Dates : range[1] <= range[2]}
        \cup {<<a>> : a \in Dates} \cup {<<MinDate(frame), MaxDate(frame)>>}

\* df['Teams'].unique()
TeamOptions(frame) == {frame[i].Teams : i \in 1..Len(frame)}

\* Values st.multiselect can hand back; the default is every option.
TeamInputs(frame) == SUBSET TeamOptions(frame)

-----------------------------------------------------------------------------
(* Page elements and step outcomes                                         *)

\* An element put on the page: the Streamlit call, its text, and the
\* exception text an error message carries.
Element(call, text, e) == <<call, text, e>>

Title == Element("st.title", "Team Health Analytics", "")
ErrorSecrets(e) == Element("st.error", "Error loading credentials from secrets", e)
ErrorLocal(e) == Element("st.error", "Error loading local credentials", e)
ErrorNoCredentials == Element("st.error", "No credentials found!", "")
ErrorNoId ==
    Element("st.error", "SPREADSHEET_ID not found in environment or secrets", "")
ErrorConnecting(e) == Element("st.error", "Error connecting to spreadsheet", e)
ErrorLoading(e) == Element("st.error", "Error loading analytics", e)
WriteException(e) == Element("st.write", "", e)
InfoNoData ==
    Element("st.info", "No data available yet. Submit responses to see analytics!", "")
WarningNoData ==
    Element("st.warning", "No data available for the selected filters", "")
KeyMetricsShown == Element("st.metric", "Key Metrics", "")
FiltersShown == Element("st.date_input", "Filters", "")
TrendChart == Element("st.plotly_chart", "Average Scores Over Time", "")
BarChart == Element("st.plotly_chart", "Current Average Scores", "")
TeamChart == Element("st.plotly_chart", "Team Comparison", "")
PieChart == Element("st.plotly_chart", "Manager Approach Distribution", "")
DetailShown == Element("st.dataframe", "Detailed Data", "")

IsError(el) == el[1] = "st.error"
Errors(page) == {k \in 1..Len(page) : IsError(page[k])}

\* How a piece of the script ends: it returns, it raises an Exception e, it
\* calls st.stop() (a BaseException no 'except Exception' catches), or the
\* script reaches its last line.
Returns(page, api) == [kind |-> "return", ui |-> page, calls |-> api, e |-> ""]
Raises(page, api, e) == [kind |-> "raise", ui |-> page, calls |-> api, e |-> e]
Stops(page, api) == [kind |-> "stop", ui |-> page, calls |-> api, e |-> ""]
Ends(page, api) == [kind |-> "end", ui |-> page, calls |-> api, e |-> ""]

-----------------------------------------------------------------------------
(* Credentials and the worksheet handle                                    *)

\* What one render finds around it: whether st.cache_resource already holds
\* a client, the secrets file (missing, without the service account entry,
\* with a usable or an unusable one), service-account.json, the two places
\* of SPREADSHEET_ID, and the spreadsheet itself.
\* A setting no branch can read (service-account.json when the secrets are
\* read first, the secret SPREADSHEET_ID behind an environment variable or a
\* missing secrets file) is held at one value.
Environments ==
    {env \in [cached    : BOOLEAN,
              secrets   : {"no file", "no entry", "good", "bad"},
              file      : {"absent", "good", "bad"},
              env_id    : BOOLEAN,
              secret_id : BOOLEAN,
              sheet     : {"ok", "unreachable", "no Scores tab"}] :
        /\ (env.cached \/ env.secrets # "no entry") => env.file = "absent"
        /\ (env.env_id \/ env.secrets = "no file") => ~env.secret_id}

\* setup_sheets_client()
SetupSheetsClient(env, page, api) ==
    IF env.cached THEN Returns(page, api)
    ELSE IF env.secrets = "no file"
    THEN Raises(page, api, "FileNotFoundError")
    ELSE IF env.secrets = "good"
    THEN Returns(page, api)
    ELSE IF env.secrets = "bad"
    THEN Stops(Append(page, ErrorSecrets("ValueError")), api)
    ELSE IF env.file = "good"
    THEN Returns(page, api)
    ELSE IF env.file = "bad"
    THEN Stops(Append(page, ErrorLocal("ValueError")), api)
    ELSE Stops(Append(page, ErrorNoCredentials), api)

\* os.environ.get("SPREADSHEET_ID") or st.secrets.get("SPREADSHEET_ID")
SpreadsheetId(env, page, api) ==
    IF env.env_id THEN Returns(page, api)
    ELSE IF env.secrets = "no file"
    THEN Raises(page, api, "FileNotFoundError")
    ELSE IF env.secret_id THEN Returns(page, api)
    ELSE Stops(Append(page, ErrorNoId), api)

\* client.open_by_key(spreadsheet_id); sheet.worksheet('Scores')
OpenScores(env, page, api) ==
    IF env.sheet = "unreachable"
    THEN Raises(page, Append(api, "open_by_key"), "APIError")
    ELSE IF env.sheet = "no Scores tab"
    THEN Raises(page, api \o <<"open_by_key", "worksheet">>, "WorksheetNotFound")
    ELSE Returns(page, api \o <<"open_by_key", "worksheet">>)

\* The handler without its st.stop(): get_worksheet returns after the message.
ExceptConnectingNoStop(r) ==
    IF r.kind = "raise"
    THEN Returns(Append(r.ui, ErrorConnecting(r.e)), r.calls)
    ELSE r

\* get_worksheet(): except Exception as e: st.error(...); st.stop()
ExceptConnecting(r) ==
    IF r.kind = "raise"
    THEN Stops(Append(r.ui, ErrorConnecting(r.e)), r.calls)
    ELSE r

\* The body of get_worksheet's try block.
GetWorksheetBody(env, page, api) ==
    LET client == SetupSheetsClient(env, page, api)
    IN  IF client.kind # "return" THEN client
        ELSE LET id == SpreadsheetId(env, client.ui, client.calls)
             IN  IF id.kind # "return" THEN id
                 ELSE OpenScores(env, id.ui, id.calls)

\* get_worksheet()
GetWorksheetCall(env, page, api) ==
    ExceptConnecting(GetWorksheetBody(env, page, api))

\* The script's top-level handler: except Exception as e: st.error(...);
\* st.write(str(e)); the script then reaches its end.
TopLevelExcept(r) ==
    IF r.kind = "raise"
    THEN Ends(r.ui \o <<ErrorLoading(r.e), WriteException(r.e)>>, r.calls)
    ELSE r

\* Where the script stands after a step that ended as r.
NextPc(r, next) ==
    CASE r.kind = "return" -> next
      [] r.kind = "stop"   -> "stopped"
      [] r.kind = "end"    -> "done"
      [] OTHER             -> "crashed"

-----------------------------------------------------------------------------
(* Key metrics                                                             *)

\* Values datetime.now() can return: a morning and the evening after.
Clock == {Timestamp(20240101, 900), Timestamp(20240102, 1730)}

\* st.metric("Total Submissions", len(df))
TotalSubmissions(frame) == Len(frame)

\* The distinct timestamps, their time of day not dropped.
UniqueTimestamps(frame) == Cardinality({frame[i].Date : i \in 1..Len(frame)})

\* st.metric("Unique Days", df['Date'].dt.date.nunique())
UniqueDays(frame) == Cardinality({DtDate(frame[i].Date) : i \in 1..Len(frame)})

\* st.metric("Teams", df['Teams'].nunique())
TeamCount(frame) == Cardinality(TeamOptions(frame))

\* today = datetime.now().strftime('%Y-%m-%d')
Today(now) == StrfDate(now)

\* The rows whose whole timestamp is today's date, that is, today at midnight.
TodayCountAtMidnight(frame, today) ==
    Cardinality({i \in 1..Len(frame) :
                    StrfDate(frame[i].Date) = today /\ frame[i].Date.time = 0})

\* len(df[df['Date'].dt.strftime('%Y-%m-%d') == today])
TodayCount(frame, today) ==
    Cardinality({i \in 1..Len(frame) : StrfDate(frame[i].Date) = today})

NoMetrics == [total |-> 0, unique_days |-> 0, teams |-> 0, now |-> NoTimestamp,
              today |-> "", today_count |-> 0]

KeyMetricsOf(frame, now) ==
    [total |-> TotalSubmissions(frame), unique_days |-> UniqueDays(frame),
     teams |-> TeamCount(frame), now |-> now, today |-> Today(now),
     today_count |-> TodayCount(frame, Today(now))]

-----------------------------------------------------------------------------
(* The report below the filters                                            *)

NoReport == [shown |-> FALSE, daily_avg |-> <<>>, current_avg |-> <<>>,
             team_avg |-> <<>>, approach_counts |-> <<>>, pie_labels |-> <<>>,
             detail |-> <<>>]

\* if 'Teams' in df.columns and len(teams) > 1:
ComparesTeams(columns, selected) ==
    InColumns(columns, "Teams") /\ Cardinality(selected) > 1

ReportOf(frame, rows, columns, selected) ==
    LET cols   == NumericCols(columns)
        counts == ValueCounts(frame, rows, "Manager Appro")
    IN  [shown |-> TRUE,
         daily_avg |-> DailyAvg(frame, rows, cols),
         current_avg |-> CurrentAvg(frame, rows, cols),
         team_avg |-> IF ComparesTeams(columns, selected)
                      THEN TeamAvg(frame, rows, cols) ELSE <<>>,
         approach_counts |-> counts,
         pie_labels |-> PieLabels(counts, IsFloatColumn(frame, "Manager Appro")),
         detail |-> DetailTable(frame, rows)]

ReportElements(columns, selected) ==
    <<TrendChart, BarChart>>
        \o (IF ComparesTeams(columns, selected) THEN <<TeamChart>> ELSE <<>>)
        \o <<PieChart, DetailShown>>

\* if len(filtered_df) > 0 and len(numeric_cols) > 0:
HasData(rows, columns) == Len(rows) > 0 /\ Len(NumericCols(columns)) > 0

-----------------------------------------------------------------------------
(* The analytics script, step by step                                      *)

Locals == <<all_data, df, metrics, date_range, teams, filtered_df, report>>

\* The script's variables before its first line has run.
FreshLocals ==
    /\ all_data = <<>>
    /\ df = <<>>
    /\ metrics = NoMetrics
    /\ date_range = <<>>
    /\ teams = {}
    /\ filtered_df = <<>>
    /\ report = NoReport

ResetLocals ==
    /\ all_data' = <<>>
    /\ df' = <<>>
    /\ metrics' = NoMetrics
    /\ date_range' = <<>>
    /\ teams' = {}
    /\ filtered_df' = <<>>
    /\ report' = NoReport

Init ==
    /\ store \in Sheets
    /\ pc = "start"
    /\ ui = <<>>
    /\ calls = <<>>
    /\ FreshLocals
    /\ ratings = <<>>
    /\ current_page = "assessment"

\* st.title(...); st.markdown(...)
PageHeader ==
    /\ pc = "start"
    /\ ui' = Append(ui, Title)
    /\ pc' = "get_worksheet"
    /\ UNCHANGED <<store, calls, Locals, sessionVars>>

\* worksheet = get_worksheet()
GetWorksheet ==
    /\ pc = "get_worksheet"
    /\ \E env \in Environments :
          LET r == TopLevelExcept(GetWorksheetCall(env, ui, calls))
          IN  /\ ui' = r.ui
              /\ calls' = r.calls
              /\ pc' = NextPc(r, "read")
    /\ UNCHANGED <<store, Locals, sessionVars>>

\* worksheet.get_all_values(): the rows of the sheet, or an API error.
GetAllValues(sheet, answers, page, api) ==
    IF answers
    THEN Returns(page, Append(api, "get_all_values"))
    ELSE Raises(page, Append(api, "get_all_values"), "APIError")

\* all_data = worksheet.get_all_values()
ReadAll ==
    /\ pc = "read"
    /\ \E answers \in BOOLEAN :
          LET r == TopLevelExcept(GetAllValues(store, answers, ui, calls))
          IN  /\ ui' = r.ui
              /\ calls' = r.calls
              /\ pc' = NextPc(r, "parse")
              /\ all_data' = IF r.kind = "return" THEN store ELSE all_data
    /\ UNCHANGED <<store, df, metrics, date_range, teams, filtered_df, report,
                   sessionVars>>

\* if len(all_data) > 1: df = ...; df['Date'] = pd.to_datetime(df['Date']);
\* the score columns through pd.to_numeric; else: st.info(...)
ParseData(data, page, api) ==
    IF Len(data) > 1
    THEN IF DatesParse(ParseFrame(data))
         THEN Returns(page, api)
         ELSE Raises(page, api, "DateParseError")
    ELSE Ends(Append(page, InfoNoData), api)

Parse ==
    /\ pc = "parse"
    /\ LET r == TopLevelExcept(ParseData(all_data, ui, calls))
       IN  /\ ui' = r.ui
           /\ calls' = r.calls
           /\ pc' = NextPc(r, "metrics")
           /\ df' = IF r.kind = "return" THEN ParseFrame(all_data) ELSE df
    /\ UNCHANGED <<store, all_data, metrics, date_range, teams, filtered_df,
                   report, sessionVars>>

\* The Key Metrics row, with the clock read for "Today's Submissions".
KeyMetrics ==
    /\ pc = "metrics"
    /\ \E now \in Clock : metrics' = KeyMetricsOf(df, now)
    /\ ui' = Append(ui, KeyMetricsShown)
    /\ pc' = "filters"
    /\ UNCHANGED <<store, calls, all_data, df, date_range, teams, filtered_df,
                   report, sessionVars>>

\* filtered_df = df[(...dt.date >= date_range[0]) & (...dt.date <= date_range[1])]
\* followed by the team filter; date_range[1] of a one-element tuple raises.
FilterRows(frame, columns, range, selected) ==
    TeamFilter(frame, DateFilter(frame, range), columns, selected)

FilterAndReport(frame, columns, range, selected, page, api) ==
    IF Len(range) < 2
    THEN Raises(Append(page, FiltersShown), api, "IndexError")
    ELSE IF HasData(FilterRows(frame, columns, range, selected), columns)
    THEN Ends(Append(page, FiltersShown) \o ReportElements(columns, selected), api)
    ELSE Ends(Append(page, FiltersShown) \o <<WarningNoData>>, api)

\* The filter widgets, the filtered frame, and the charts or the warning.
Filters ==
    /\ pc = "filters"
    /\ \E range \in DateInputs(df), selected \in TeamInputs(df) :
          LET columns == all_data[1]
              r == TopLevelExcept(
                       FilterAndReport(df, columns, range, selected, ui, calls))
              rows == IF Len(range) < 2 THEN filtered_df
                      ELSE FilterRows(df, columns, range, selected)
          IN  /\ date_range' = range
              /\ teams' = selected
              /\ filtered_df' = rows
              /\ report' = IF Len(range) >= 2 /\ HasData(rows, columns)
                           THEN ReportOf(df, rows, columns, selected)
                           ELSE report
              /\ ui' = r.ui
              /\ calls' = r.calls
              /\ pc' = NextPc(r, "done")
    /\ UNCHANGED <<store, all_data, df, metrics, sessionVars>>

\* Streamlit runs the script again, from its first line.
Rerun ==
    /\ pc \in {"done", "stopped", "crashed"}
    /\ pc' = "start"
    /\ ui' = <<>>
    /\ calls' = <<>>
    /\ ResetLocals
    /\ UNCHANGED <<store, sessionVars>>

Next ==
    \/ PageHeader
    \/ GetWorksheet
    \/ ReadAll
    \/ Parse
    \/ KeyMetrics
    \/ Filters
    \/ Rerun

Spec == Init /\ [][Next]_vars

-----------------------------------------------------------------------------
(* team_health_check.py: the rating session                                *)

\* The ids of HEALTH_AREAS, in order.
HEALTH_AREAS == <<"release", "process", "tech", "value", "speed", "mission",
                  "fun", "learning", "support", "autonomy">>

\* st.slider(min_value=1, max_value=10)
MinRating == 1
MaxRating == 10

\* The slider positions the model saves: both ends of the scale.
RatingChoices == {MinRating, MaxRating}

\* completed = len(st.session_state.ratings); total = len(HEALTH_AREAS)
Completed(saved) == Cardinality(DOMAIN saved)
Total == Len(HEALTH_AREAS)

\* The button drawn one area early.
CanViewResultsOneEarly(saved) == Completed(saved) >= Total - 1

\* if completed == total: the View Results button is drawn.
CanViewResults(saved) == Completed(saved) = Total

\* The assignment replacing the whole map by the one rating.
WithRatingAlone(saved, id, rating) == [a \in {id} |-> rating]

\* st.session_state.ratings[area['id']] = rating
WithRating(saved, id, rating) ==
    [a \in DOMAIN saved \cup {id} |-> IF a = id THEN rating ELSE saved[a]]

SessionInit ==
    /\ store = <<>>
    /\ pc = "start"
    /\ ui = <<>>
    /\ calls = <<>>
    /\ FreshLocals
    /\ ratings = <<>>
    /\ current_page = "assessment"

\* The "Save Rating" button of one area on the assessment page.
SaveRating(id, rating) ==
    /\ current_page = "assessment"
    /\ ratings' = WithRating(ratings, id, rating)
    /\ UNCHANGED <<current_page, analyticsVars>>

\* The "View Results" button of the assessment page.
ViewResults ==
    /\ current_page = "assessment"
    /\ CanViewResults(ratings)
    /\ current_page' = "results"
    /\ UNCHANGED <<ratings, analyticsVars>>

\* The reset that returns to the assessment page with the ratings kept.
NewAssessmentKeepsRatings ==
    /\ current_page # "assessment"
    /\ current_page' = "assessment"
    /\ UNCHANGED <<ratings, analyticsVars>>

\* The "New Assessment" button of the results page.
NewAssessment ==
    /\ current_page # "assessment"
    /\ ratings' = <<>>
    /\ current_page' = "assessment"
    /\ UNCHANGED analyticsVars

\* The "Edit Ratings" button of the results page.
EditRatings ==
    /\ current_page # "assessment"
    /\ current_page' = "assessment"
    /\ UNCHANGED <<ratings, analyticsVars>>

SessionNext ==
    \/ \E id \in Range(HEALTH_AREAS), rating \in RatingChoices :
          SaveRating(id, rating)
    \/ ViewResults
    \/ NewAssessment
    \/ EditRatings

SessionSpec == SessionInit /\ [][SessionNext]_vars

-----------------------------------------------------------------------------
(* Properties of the analytics render                                      *)

\* The filter step of this render ran with both ends of the range picked.
Filtered == Len(date_range) = 2

\* Positions of the filtered rows whose cell of a column parsed as a number.
Parseable(col) ==
    {k \in 1..Len(filtered_df) : ~df[filtered_df[k]].num[col].nan}

RECURSIVE SumCells(_, _)
SumCells(col, positions) ==
    IF positions = {} THEN 0
    ELSE LET k == CHOOSE x \in positions : TRUE
         IN  df[filtered_df[k]].num[col].v + SumCells(col, positions \ {k})

\* C1: whenever the averages are shown, the mean of every score column is
\* the sum of its parseable cells among the filtered rows over the number of
\* those cells; a column with no parseable cell has the undefined mean, and
\* the render has not failed.
C1_MeanOverParseableCells ==
    report.shown =>
        /\ pc = "done"
        /\ Errors(ui) = {}
        /\ DOMAIN report.current_avg = Range(NumericCols(all_data[1]))
        /\ \A col \in DOMAIN report.current_avg :
              IF Parseable(col) = {}
              THEN report.current_avg[col].nan
              ELSE /\ ~report.current_avg[col].nan
                   /\ report.current_avg[col].sum = SumCells(col, Parseable(col))
                   /\ report.current_avg[col].count = Cardinality(Parseable(col))

\* Averages shown where one column has a blank among its parseable cells and
\* so a count below the row count.
C1_Witness ==
    /\ report.shown
    /\ Len(filtered_df) = 2
    /\ Cardinality(Parseable("Manager Appro")) = 1
    /\ Cardinality(Parseable("Risk Taking")) = 2

\* Averages shown where a column has no parseable cell at all.
C1_WitnessEmpty ==
    /\ report.shown
    /\ Parseable("Manager Appro") = {}
    /\ report.current_avg["Manager Appro"].nan

\* C2: after the filter step, a row of a selected team is kept if and only
\* if the date component of its timestamp lies between the two ends of the
\* range, both included, whatever its time of day.
C2_DateRangeInclusive ==
    Filtered =>
        \A i \in 1..Len(df) :
            df[i].Teams \in teams =>
                (i \in Range(filtered_df)
                    <=> /\ date_range[1] <= df[i].Date.date
                        /\ df[i].Date.date <= date_range[2])

\* A row stamped in the evening of the end date is kept and a row of the
\* next day is dropped.
C2_Witness ==
    /\ Filtered
    /\ \E i, j \in 1..Len(df) :
          /\ df[i].Teams \in teams /\ df[j].Teams \in teams
          /\ df[i].Date.date = date_range[2] /\ df[i].Date.time = 1730
          /\ i \in Range(filtered_df)
          /\ df[j].Date.date > date_range[2]
          /\ j \notin Range(filtered_df)

\* The teams of the rows the date range keeps.
TeamsInRange ==
    {df[i].Teams : i \in {j \in 1..Len(df) :
                            /\ date_range[1] <= df[j].Date.date
                            /\ df[j].Date.date <= date_range[2]}}

OnPage(el) == el \in Range(ui)

\* C3: whenever the selected teams share no team with the rows of the date
\* range (the selection may be empty), no row is left, the render ends with
\* the 'No data available for the selected filters' warning, no average or
\* chart is computed and no error is raised.
C3_EmptyIntersectionGivesNoData ==
    (Filtered /\ teams \cap TeamsInRange = {}) =>
        /\ filtered_df = <<>>
        /\ OnPage(WarningNoData)
        /\ ~report.shown
        /\ Errors(ui) = {}
        /\ pc = "done"

\* C4 as claimed: the submission count and the unique-day count are those of
\* the rows that pass the filters.
C4_CountsOfFilteredRows ==
    Filtered =>
        /\ metrics.total = Len(filtered_df)
        /\ metrics.unique_days =
              Cardinality({df[filtered_df[k]].Date.date : k \in 1..Len(filtered_df)})

\* C4: once the key metrics are on the page, the submission count is the
\* number of data rows read from the sheet and the unique-day count is the
\* number of distinct calendar dates among all of them, whatever the date
\* range and the teams selected afterwards.
C4_CountsOfAllRows ==
    OnPage(KeyMetricsShown) =>
        /\ metrics.total = Len(store) - 1
        /\ metrics.unique_days =
              Cardinality({ToDatetime(store[i][1]).date : i \in 2..Len(store)})

\* The filters dropped a row and a day, and the two counts still cover them.
C4_Witness ==
    /\ Filtered
    /\ OnPage(KeyMetricsShown)
    /\ Len(filtered_df) = 1
    /\ metrics.total = 2
    /\ metrics.unique_days = 2
    /\ \E i, j \in 1..Len(df) : i # j /\ df[i].Date.date = df[j].Date.date - 1
                                /\ df[i].Date.time # df[j].Date.time

\* C5: once the key metrics are on the page, "Today's Submissions" is the
\* number of rows of the sheet whose calendar date is the date of the clock
\* value read in this render, whatever their time of day; and when the
\* metrics are about to be computed every clock value can be the one read,
\* whatever earlier renders read.
C5_TodayCount ==
    /\ OnPage(KeyMetricsShown) =>
          /\ metrics.now \in Clock
          /\ metrics.today = StrfDate(metrics.now)
          /\ metrics.today_count =
                Cardinality({i \in 1..Len(df) : df[i].Date.date = metrics.now.date})
    /\ pc = "metrics" =>
          \A now \in Clock : ENABLED (KeyMetrics /\ metrics'.now = now)

\* A row of today stamped at another time than the clock is counted, a row
\* of the day before is not.
C5_Witness ==
    /\ OnPage(KeyMetricsShown)
    /\ metrics.today_count = 1
    /\ \E i, j \in 1..Len(df) :
          /\ df[i].Date.date = metrics.now.date
          /\ df[i].Date.time # metrics.now.time
          /\ df[j].Date.date < metrics.now.date

\* Rows of the filtered frame whose manager-approach score is v.
RowsScoring(v) ==
    {k \in 1..Len(filtered_df) :
        df[filtered_df[k]].num["Manager Appro"] = Num(v)}

\* C6: the manager-approach distribution has one group per raw score of the
\* filtered rows, counting its rows; a group is labelled 'Too directive',
\* 'Just right' or 'Too hands off' exactly when its raw score is 1, 3 or 5,
\* every other raw score N is labelled 'Score N', and no two groups share a
\* label.
C6_ApproachLabels ==
    report.shown =>
        LET counts == report.approach_counts
            labels == report.pie_labels
        IN  /\ Len(labels) = Len(counts)
            /\ {counts[j].idx : j \in 1..Len(counts)}
                  = {df[filtered_df[k]].num["Manager Appro"].v :
                        k \in Parseable("Manager Appro")}
            /\ \A j \in 1..Len(counts) :
                  /\ counts[j].n = Cardinality(RowsScoring(counts[j].idx))
                  /\ labels[j] = "Too directive" <=> counts[j].idx = 10
                  /\ labels[j] = "Just right" <=> counts[j].idx = 30
                  /\ labels[j] = "Too hands off" <=> counts[j].idx = 50
                  /\ counts[j].idx \notin {10, 30, 50} =>
                        labels[j] \in {ScoreLabel(counts[j].idx, TRUE),
                                       ScoreLabel(counts[j].idx, FALSE)}
            /\ \A j, k \in 1..Len(counts) : j # k => labels[j] # labels[k]

\* Some cell of the data rows read from the sheet does not parse.
UnparseableCell ==
    \E i \in 2..Len(all_data) :
        \/ ~ToDatetime(all_data[i][ColumnIndex(all_data[1], "Date")]).ok
        \/ \E col \in Range(NumericCols(all_data[1])) :
              ToNumeric(all_data[i][ColumnIndex(all_data[1], col)]).nan

\* C7: a render that read data rows with a cell that does not parse, in any
\* column, still shows the key metrics and does not end in the error
\* outcome.
C7_ParseFailuresTolerated ==
    (pc = "done" /\ Len(all_data) > 1 /\ UnparseableCell) =>
        /\ OnPage(KeyMetricsShown)
        /\ ~OnPage(ErrorLoading("DateParseError"))

CredentialErrors ==
    {ErrorSecrets("ValueError"), ErrorLocal("ValueError"), ErrorNoCredentials}
ConnectErrors ==
    {ErrorConnecting(e) :
        e \in {"FileNotFoundError", "APIError", "WorksheetNotFound"}}
ReportElementsAll ==
    {KeyMetricsShown, FiltersShown, TrendChart, BarChart, TeamChart, PieChart,
     DetailShown, WarningNoData, InfoNoData}

\* A step of the script other than its start by a rerun.
ScriptStep == PageHeader \/ GetWorksheet \/ ReadAll \/ Parse \/ KeyMetrics \/ Filters

\* C8: no exception escapes a render; a failed step leaves exactly one error
\* message on the page, nothing but the exception text follows it, and the
\* script takes no further step; after a credential or identifier failure
\* the spreadsheet was not opened, after a connection failure it was not
\* read, and after a connection or read failure no metric, filter or chart
\* is on the page.
C8_FailuresSurfaceAndStop ==
    /\ pc # "crashed"
    /\ Errors(ui) # {} =>
          /\ Cardinality(Errors(ui)) = 1
          /\ pc \in {"stopped", "done"}
          /\ ~ENABLED ScriptStep
          /\ \A k \in 1..Len(ui) :
                (\E j \in Errors(ui) : j < k) => ui[k][1] = "st.write"
    /\ pc = "stopped" => Errors(ui) # {}
    /\ (\E el \in CredentialErrors \cup {ErrorNoId} : OnPage(el)) =>
          /\ calls = <<>>
          /\ pc = "stopped"
    /\ (\E el \in ConnectErrors : OnPage(el)) =>
          /\ "get_all_values" \notin Range(calls)
          /\ pc = "stopped"
    /\ (\E el \in ConnectErrors \cup {ErrorLoading("APIError")} : OnPage(el)) =>
          /\ Range(ui) \cap ReportElementsAll = {}
          /\ all_data = <<>> /\ df = <<>> /\ metrics = NoMetrics /\ ~report.shown

\* The spreadsheet could not be opened: the message is shown, the script has
\* stopped and the sheet was never read.
C8_Witness ==
    /\ OnPage(ErrorConnecting("APIError"))
    /\ pc = "stopped"
    /\ calls = <<"open_by_key">>

\* The worksheet was opened and reading it failed.
C8_WitnessRead ==
    /\ OnPage(ErrorLoading("APIError"))
    /\ pc = "done"
    /\ calls = <<"open_by_key", "worksheet", "get_all_values">>

\* The sheet with its data rows in the order p, the header staying first.
Permuted(data, p) ==
    <<data[1]>> \o [i \in 1..(Len(data) - 1) |-> data[p[i] + 1]]

\* How often x occurs in a sequence.
Occurrences(s, x) == Cardinality({k \in 1..Len(s) : s[k] = x})

SameBag(s, t) ==
    /\ Len(s) = Len(t)
    /\ \A k \in 1..Len(s) : Occurrences(s, s[k]) = Occurrences(t, s[k])

\* The rows of a frame that a sequence of index labels names.
Rows(frame, labels) == [k \in 1..Len(labels) |-> frame[labels[k]]]

\* C9: had the data rows arrived in any other order, the same clock value,
\* date range and teams would give the same key metrics, the same filtered
\* rows, the same daily, overall and per-team means and the same
\* manager-approach distribution; the detail table would hold the same rows,
\* in an order of its own; and what the render read is what the sheet still
\* holds.
C9_RowOrderIrrelevant ==
    /\ pc \in {"parse", "metrics", "filters"} \/ Filtered => all_data = store
    /\ OnPage(KeyMetricsShown) =>
          \A p \in Permutations(1..Len(df)) :
              LET frame == ParseFrame(Permuted(all_data, p))
              IN  /\ DatesParse(frame)
                  /\ KeyMetricsOf(frame, metrics.now) = metrics
                  /\ Filtered =>
                        LET columns == all_data[1]
                            rows == FilterRows(frame, columns, date_range, teams)
                            other == ReportOf(frame, rows, columns, teams)
                        IN  /\ SameBag(Rows(frame, rows), Rows(df, filtered_df))
                            /\ HasData(rows, columns) = report.shown
                            /\ report.shown =>
                                  /\ other.daily_avg = report.daily_avg
                                  /\ other.current_avg = report.current_avg
                                  /\ other.team_avg = report.team_avg
                                  /\ other.approach_counts = report.approach_counts
                                  /\ other.pie_labels = report.pie_labels
                                  /\ SameBag(other.detail, report.detail)

\* Two different rows of the same minute are both kept, with different
\* scores and both teams compared: the other order of the two gives another
\* detail table.
C9_Witness ==
    /\ report.shown
    /\ Len(filtered_df) = 2
    /\ Len(report.approach_counts) = 2
    /\ DOMAIN report.team_avg = {"Flights", "Hotels"}
    /\ df[1].Date = df[2].Date
    /\ \E p \in Permutations(1..Len(df)) :
          LET frame == ParseFrame(Permuted(all_data, p))
              rows == FilterRows(frame, all_data[1], date_range, teams)
          IN  DetailTable(frame, rows) # report.detail

-----------------------------------------------------------------------------
(* Properties of the rating session                                        *)

\* C10: the results page is current only if every health area has a saved
\* rating, and the View Results button can be pressed only then.
C10_ResultsOnlyWhenComplete ==
    /\ current_page = "results" => Completed(ratings) = Total
    /\ ENABLED ViewResults => Completed(ratings) = Total
    /\ DOMAIN ratings \subseteq Range(HEALTH_AREAS)

\* The results page is current, with all ten areas rated.
C10_Witness ==
    /\ current_page = "results"
    /\ Completed(ratings) = 10
    /\ \E a, b \in DOMAIN ratings : ratings[a] # ratings[b]

\* C11: a New Assessment step leaves no saved rating and the assessment page
\* current, which is the state of a fresh session; an Edit Ratings step makes
\* the assessment page current and leaves every saved rating as it was. Both
\* buttons can be pressed whenever the results page is current.
C11_ResetAndEdit ==
    /\ [][NewAssessment =>
             /\ ratings' = <<>>
             /\ current_page' = "assessment"
             /\ SessionInit']_vars
    /\ [][EditRatings =>
             /\ current_page' = "assessment"
             /\ ratings' = ratings
             /\ ratings' # <<>>]_vars
    /\ [](current_page = "results" =>
             ENABLED NewAssessment /\ ENABLED EditRatings)

\* The results page with both ends of the scale among the ten saved ratings:
\* the state in which New Assessment and Edit Ratings are pressed.
C11_Witness ==
    /\ current_page = "results"
    /\ ENABLED NewAssessment
    /\ ENABLED EditRatings
    /\ \E a \in DOMAIN ratings : ratings[a] = MinRating
    /\ \E a \in DOMAIN ratings : ratings[a] = MaxRating

\* Some Save Rating button can be pressed.
CanSave ==
    \E id \in Range(HEALTH_AREAS), rating \in RatingChoices :
        ENABLED SaveRating(id, rating)

\* C12: the saved ratings map identifiers of the configured health areas to
\* integers from 1 to 10, so the completed count is at most the total; a Save
\* Rating step sets the rating of its area and leaves every other rating and
\* the current page unchanged; it can be taken only on the assessment page.
C12_RatingsMap ==
    /\ [](/\ DOMAIN ratings \subseteq Range(HEALTH_AREAS)
          /\ \A a \in DOMAIN ratings : ratings[a] \in MinRating..MaxRating
          /\ Completed(ratings) <= Total
          /\ Total = 10
          /\ CanSave => current_page = "assessment")
    /\ [][\A id \in Range(HEALTH_AREAS), rating \in RatingChoices :
             SaveRating(id, rating) =>
                 /\ DOMAIN ratings' = DOMAIN ratings \cup {id}
                 /\ ratings'[id] = rating
                 /\ \A a \in DOMAIN ratings \ {id} : ratings'[a] = ratings[a]
                 /\ current_page' = current_page]_vars

\* The assessment page with some but not all areas rated, at both ends of the
\* scale: a later save has kept an earlier rating.
C12_Witness ==
    /\ current_page = "assessment"
    /\ Completed(ratings) = 3
    /\ \E a, b \in DOMAIN ratings :
          ratings[a] = MinRating /\ ratings[b] = MaxRating

=============================================================================
